---- MODULE Spec2Model ----
(***************************************************************************)
(* PURK / SCN1 / PURK+ risk calculator (kimjk4/PURK-plus).                 *)
(*                                                                         *)
(* The calculator's numbers are ECMAScript Numbers, that is IEEE-754       *)
(* binary64 values.  They are modelled bit-exactly: a Number is a record   *)
(* [s, e, f] of sign bit, 11-bit biased exponent and 52-bit fraction, and  *)
(* the operators *, /, >, >= and Number.isFinite are computed as the       *)
(* language computes them (round to nearest, ties to even, with signed     *)
(* zeros, subnormals, infinities and NaN).  The 52-bit fraction does not   *)
(* fit the model checker's integers, so it is kept as four 13-bit limbs,   *)
(* least significant first, and the arithmetic is done on limb sequences.  *)
(***************************************************************************)
EXTENDS Integers, Sequences, FiniteSets, TLC

(***************************************************************************)
(* Natural numbers of arbitrary size: sequences of limbs, least            *)
(* significant limb first, high zero limbs allowed.                        *)
(***************************************************************************)
LimbBits == 12 + 1
LimbBase == 2 ^ LimbBits

Max2(a, b) == IF a >= b THEN a ELSE b

Limb(a, i) == IF i >= 1 /\ i <= Len(a) THEN a[i] ELSE 0

BigIsZero(a) == \A i \in 1..Len(a) : a[i] = 0

RECURSIVE BigFromInt(_)
BigFromInt(n) == IF n = 0 THEN << >> ELSE <<n % LimbBase>> \o BigFromInt(n \div LimbBase)

RECURSIVE BigTrim(_)
BigTrim(a) ==
  IF Len(a) = 0 \/ a[Len(a)] # 0 THEN a ELSE BigTrim(SubSeq(a, 1, Len(a) - 1))

\* -1, 0 or 1 as a < b, a = b or a > b, comparing from limb i down
RECURSIVE BigCmpFrom(_, _, _)
BigCmpFrom(a, b, i) ==
  IF i = 0 THEN 0
  ELSE IF Limb(a, i) > Limb(b, i) THEN 1
  ELSE IF Limb(a, i) < Limb(b, i) THEN -1
  ELSE BigCmpFrom(a, b, i - 1)

BigCmp(a, b) == BigCmpFrom(a, b, Max2(Len(a), Len(b)))

RECURSIVE BigAddFrom(_, _, _, _)
BigAddFrom(a, b, i, carry) ==
  IF i > Len(a) /\ i > Len(b)
    THEN IF carry = 0 THEN << >> ELSE <<carry>>
    ELSE LET t == Limb(a, i) + Limb(b, i) + carry
         IN  <<t % LimbBase>> \o BigAddFrom(a, b, i + 1, t \div LimbBase)

BigAdd(a, b) == BigAddFrom(a, b, 1, 0)

\* a - b, for a >= b
RECURSIVE BigSubFrom(_, _, _, _)
BigSubFrom(a, b, i, borrow) ==
  IF i > Len(a) THEN << >>
  ELSE LET t == Limb(a, i) - Limb(b, i) - borrow
       IN  IF t < 0 THEN <<t + LimbBase>> \o BigSubFrom(a, b, i + 1, 1)
                    ELSE <<t>> \o BigSubFrom(a, b, i + 1, 0)

BigSub(a, b) == BigSubFrom(a, b, 1, 0)

\* sum of the limb products a[i] * b[k + 1 - i] of column k
RECURSIVE BigColumn(_, _, _, _)
BigColumn(a, b, k, i) ==
  IF i > Len(a) THEN 0
  ELSE Limb(a, i) * Limb(b, k + 1 - i) + BigColumn(a, b, k, i + 1)

RECURSIVE BigMulFrom(_, _, _, _)
BigMulFrom(a, b, k, carry) ==
  IF k > Len(a) + Len(b)
    THEN IF carry = 0 THEN << >> ELSE <<carry>>
    ELSE LET t == BigColumn(a, b, k, 1) + carry
         IN  <<t % LimbBase>> \o BigMulFrom(a, b, k + 1, t \div LimbBase)

BigMul(a, b) == BigMulFrom(a, b, 1, 0)

RECURSIVE BitLenInt(_)
BitLenInt(n) == IF n = 0 THEN 0 ELSE 1 + BitLenInt(n \div 2)

TrimmedBitLen(t) ==
  IF Len(t) = 0 THEN 0 ELSE (Len(t) - 1) * LimbBits + BitLenInt(t[Len(t)])

BigBitLen(a) == TrimmedBitLen(BigTrim(a))

\* bit i of a, bit 0 the least significant
BigBit(a, i) == (Limb(a, (i \div LimbBits) + 1) \div (2 ^ (i % LimbBits))) % 2

\* a * 2^(w * LimbBits + r), for r < LimbBits
ShlBy(a, w, r) ==
  [i \in 1..w |-> 0]
    \o [i \in 1..(Len(a) + 1) |->
          ((Limb(a, i) * (2 ^ r)) % LimbBase) + (Limb(a, i - 1) \div (2 ^ (LimbBits - r)))]

\* a * 2^n
BigShl(a, n) == ShlBy(a, n \div LimbBits, n % LimbBits)

\* floor(a / 2^(w * LimbBits + r)), for r < LimbBits
ShrBy(a, w, r) ==
  [i \in 1..Max2(Len(a) - w, 0) |->
     (Limb(a, i + w) \div (2 ^ r)) + ((Limb(a, i + w + 1) % (2 ^ r)) * (2 ^ (LimbBits - r)))]

\* floor(a / 2^n)
BigShr(a, n) == ShrBy(a, n \div LimbBits, n % LimbBits)

LowNonzeroBy(a, w, r) ==
  \/ \E i \in 1..w : Limb(a, i) # 0
  \/ Limb(a, w + 1) % (2 ^ r) # 0

\* whether a mod 2^n is not zero
BigLowNonzero(a, n) == LowNonzeroBy(a, n \div LimbBits, n % LimbBits)

\* one step of long division by b: from the doubled remainder r2 and the doubled
\* quotient q2, with n bits still to produce
DivStepFrom(r2, q2, n, b) ==
  IF BigCmp(r2, b) >= 0
    THEN [q |-> BigTrim(BigAdd(q2, <<1>>)), r |-> BigTrim(BigSub(r2, b)), n |-> n - 1]
    ELSE [q |-> BigTrim(q2), r |-> BigTrim(r2), n |-> n - 1]

\* the state [q, r, n] holds the quotient bits produced so far, the remainder
\* (r < b) and the number of bits still to produce
BigDivStep(st, b) == DivStepFrom(BigShl(st.r, 1), BigShl(st.q, 1), st.n, b)

RECURSIVE BigDivSteps(_, _)
BigDivSteps(st, b) == IF st.n = 0 THEN st ELSE BigDivSteps(BigDivStep(st, b), b)

\* floor(a * 2^n / b) as q and the remainder as r, for a < 2b
BigDivScaled(a, b, n) ==
  IF BigCmp(a, b) >= 0
    THEN BigDivSteps([q |-> <<1>>, r |-> BigTrim(BigSub(a, b)), n |-> n], b)
    ELSE BigDivSteps([q |-> << >>, r |-> BigTrim(a), n |-> n], b)

(***************************************************************************)
(* ECMAScript Numbers (IEEE-754 binary64).                                 *)
(* [s |-> sign, e |-> biased exponent 0..2047, f |-> fraction, 4 limbs].   *)
(* e = 2047 is an infinity (f = 0) or NaN (f # 0); e = 0 is a zero or a    *)
(* subnormal.                                                              *)
(***************************************************************************)
ZeroFrac == <<0, 0, 0, 0>>
FracLimbs == Len(ZeroFrac)
SigBits == FracLimbs * LimbBits + 1
ExpMax == 2 ^ 11 - 1
ExpBias == 2 ^ 10 - 1
\* exponent of the last place of a subnormal: 2^EMin is the least positive Number
EMin == 1 - ExpBias - (SigBits - 1)

Frac(a) == [i \in 1..FracLimbs |-> Limb(a, i)]

NaN == [s |-> 0, e |-> ExpMax, f |-> [i \in 1..FracLimbs |-> IF i = FracLimbs THEN LimbBase \div 2 ELSE 0]]
Infinity(s) == [s |-> s, e |-> ExpMax, f |-> ZeroFrac]
Zero(s) == [s |-> s, e |-> 0, f |-> ZeroFrac]
PosInfinity == Infinity(0)
NegInfinity == Infinity(1)

IsNaN(v) == v.e = ExpMax /\ ~BigIsZero(v.f)
IsInfinite(v) == v.e = ExpMax /\ BigIsZero(v.f)
IsZero(v) == v.e = 0 /\ BigIsZero(v.f)
NumberIsFinite(v) == v.e # ExpMax

\* a finite Number is (-1)^s * Sig * 2^Exp2
Sig(v) == IF v.e = 0 THEN v.f ELSE v.f \o <<1>>
Exp2(v) == IF v.e = 0 THEN EMin ELSE v.e - ExpBias - (SigBits - 1)

\* the Number (-1)^s * m * 2^e2, for m < 2^SigBits and e2 >= EMin, m normalised
\* unless e2 = EMin
Pack(s, m, e2) ==
  IF BigIsZero(m) THEN Zero(s)
  ELSE IF BigBitLen(m) < SigBits THEN [s |-> s, e |-> 0, f |-> Frac(m)]
  ELSE IF e2 + ExpBias + (SigBits - 1) >= ExpMax THEN Infinity(s)
  ELSE [s |-> s, e |-> e2 + ExpBias + (SigBits - 1), f |-> Frac(m)]

\* the Number (-1)^s * r * 2^e2, for r <= 2^SigBits
Renorm(s, r, e2) ==
  IF BigBitLen(r) > SigBits THEN Pack(s, BigShr(r, 1), e2 + 1) ELSE Pack(s, r, e2)

\* q rounded up if the discarded part is above a half (half and rest) or is a half
\* and q is odd
RoundQuot(s, q, e2, half, rest) ==
  Renorm(s, IF half /\ (rest \/ BigBit(q, 0) = 1) THEN BigAdd(q, <<1>>) ELSE q, e2)

\* sh low bits of m are discarded (sh > 0), or m is scaled up exactly
RoundShift(s, m, e2, sticky, sh) ==
  IF sh <= 0 THEN Pack(s, BigShl(m, 0 - sh), e2 + sh)
  ELSE RoundQuot(s, BigShr(m, sh), e2 + sh,
                 BigBit(m, sh - 1) = 1, sticky \/ BigLowNonzero(m, sh - 1))

\* the Number nearest to (-1)^s * (m + t) * 2^e2, ties to even, where 0 <= t < 1
\* and t # 0 exactly if sticky
RoundPack(s, m, e2, sticky) ==
  RoundShift(s, m, e2, sticky, Max2(BigBitLen(m) - SigBits, EMin - e2))

SignXor(a, b) == (a.s + b.s) % 2

\* a * b
FMul(a, b) ==
  IF IsNaN(a) \/ IsNaN(b) THEN NaN
  ELSE IF IsInfinite(a) \/ IsInfinite(b)
    THEN IF IsZero(a) \/ IsZero(b) THEN NaN ELSE Infinity(SignXor(a, b))
  ELSE IF IsZero(a) \/ IsZero(b) THEN Zero(SignXor(a, b))
  ELSE RoundPack(SignXor(a, b), BigMul(Sig(a), Sig(b)), Exp2(a) + Exp2(b), FALSE)

FDivRound(s, d, e2) == RoundPack(s, d.q, e2, ~BigIsZero(d.r))

\* (ma * 2^ea) / (mb * 2^eb), where la and lb are the left shifts that normalise
\* ma and mb to SigBits bits
FDivNorm(s, ma, ea, la, mb, eb, lb) ==
  FDivRound(s, BigDivScaled(BigShl(ma, la), BigTrim(BigShl(mb, lb)), SigBits + 2),
            (ea - la) - (eb - lb) - (SigBits + 2))

\* a / b
FDiv(a, b) ==
  IF IsNaN(a) \/ IsNaN(b) THEN NaN
  ELSE IF IsInfinite(a)
    THEN IF IsInfinite(b) THEN NaN ELSE Infinity(SignXor(a, b))
  ELSE IF IsInfinite(b) THEN Zero(SignXor(a, b))
  ELSE IF IsZero(b)
    THEN IF IsZero(a) THEN NaN ELSE Infinity(SignXor(a, b))
  ELSE IF IsZero(a) THEN Zero(SignXor(a, b))
  ELSE FDivNorm(SignXor(a, b), Sig(a), Exp2(a), SigBits - BigBitLen(Sig(a)),
                Sig(b), Exp2(b), SigBits - BigBitLen(Sig(b)))

\* -1, 0, 1 as |a| < |b|, |a| = |b|, |a| > |b|, for a and b not NaN
MagCmp(a, b) ==
  IF a.e # b.e THEN (IF a.e > b.e THEN 1 ELSE -1) ELSE BigCmp(a.f, b.f)

\* -1, 0, 1 as a < b, a = b, a > b, for a and b not NaN; the two zeros are equal
NumCmp(a, b) ==
  IF IsZero(a) /\ IsZero(b) THEN 0
  ELSE IF a.s # b.s THEN (IF a.s = 0 THEN 1 ELSE -1)
  ELSE IF a.s = 0 THEN MagCmp(a, b) ELSE MagCmp(b, a)

\* a > b and a >= b: false when either side is NaN
FGt(a, b) == ~IsNaN(a) /\ ~IsNaN(b) /\ NumCmp(a, b) > 0
FGe(a, b) == ~IsNaN(a) /\ ~IsNaN(b) /\ NumCmp(a, b) >= 0

\* the Number of an integer literal, 0 <= n < 2^31
FromInt(n) == RoundPack(0, BigFromInt(n), 0, FALSE)
\* the Number of a decimal literal n / d (d a power of ten): the nearest Number
Dec(n, d) == FDiv(FromInt(n), FromInt(d))
Neg(v) == [v EXCEPT !.s = 1 - v.s]

\* the neighbours of a finite Number: the next Number above and below it
FracOnes == [i \in 1..FracLimbs |-> LimbBase - 1]
MagSucc(v) ==
  IF v.f = FracOnes THEN [s |-> v.s, e |-> v.e + 1, f |-> ZeroFrac]
  ELSE [s |-> v.s, e |-> v.e, f |-> Frac(BigAdd(v.f, <<1>>))]
MagPred(v) ==
  IF BigIsZero(v.f) THEN [s |-> v.s, e |-> v.e - 1, f |-> FracOnes]
  ELSE [s |-> v.s, e |-> v.e, f |-> Frac(BigSub(v.f, <<1>>))]
NextUp(v) ==
  IF IsZero(v) THEN MagSucc(Zero(0))
  ELSE IF v.s = 0 THEN MagSucc(v) ELSE MagPred(v)
NextDown(v) == Neg(NextUp(Neg(v)))

RECURSIVE Ulps(_, _)
Ulps(v, k) ==
  IF k = 0 THEN v
  ELSE IF k > 0 THEN Ulps(NextUp(v), k - 1) ELSE Ulps(NextDown(v), k + 1)

MinValue == MagSucc(Zero(0))
MaxValue == MagPred(PosInfinity)

(***************************************************************************)
(* components/calculations.ts                                              *)
(***************************************************************************)
Unit == {"mg/dL", "umol/L"}
UMOL_PER_MGDL == Dec(884, 10)

Null == [null |-> TRUE]
Undefined == [undefined |-> TRUE]

RiskGroup == {"Low", "Intermediate", "High"}
\* the null of RiskGroup | null
NoGroup == "null"

(***************************************************************************)
(* The inputs the model draws.  A field holds any Number; the model draws  *)
(* the Numbers at which the source's comparisons change their outcome, in  *)
(* either unit, their neighbours within MaxUlps units in the last place,   *)
(* Numbers inside each band, and the Numbers that are not finite.  The     *)
(* tables give each Number by its bits; Landmark gives the same Numbers by *)
(* their decimal literals, and SamplesExact (a conjunct of Init) says that *)
(* the two agree.                                                          *)
(***************************************************************************)
MaxUlps == 1
MaxScoreArg == 8

\* the numeric literals of the source
Num150 == FromInt(150)
Num1 == FromInt(1)
Num0p4 == Dec(4, 10)
Num0 == Zero(0)

\* >72h creatinine: the threshold 150 umol/L and its equivalent in mg/dL;
\* 1.2 mg/dL and 160 umol/L
Cr72hTable ==
  { [at |-> "150", ulps |-> -2, v |-> [s |-> 0, e |-> 1030, f |-> <<8190, 8191, 8191, 1407>>]],
    [at |-> "150", ulps |-> -1, v |-> [s |-> 0, e |-> 1030, f |-> <<8191, 8191, 8191, 1407>>]],
    [at |-> "150", ulps |-> 0, v |-> [s |-> 0, e |-> 1030, f |-> <<0, 0, 0, 1408>>]],
    [at |-> "150", ulps |-> 1, v |-> [s |-> 0, e |-> 1030, f |-> <<1, 0, 0, 1408>>]],
    [at |-> "150", ulps |-> 2, v |-> [s |-> 0, e |-> 1030, f |-> <<2, 0, 0, 1408>>]],
    [at |-> "150/88.4", ulps |-> -2, v |-> [s |-> 0, e |-> 1023, f |-> <<6633, 6449, 3706, 5708>>]],
    [at |-> "150/88.4", ulps |-> -1, v |-> [s |-> 0, e |-> 1023, f |-> <<6634, 6449, 3706, 5708>>]],
    [at |-> "150/88.4", ulps |-> 0, v |-> [s |-> 0, e |-> 1023, f |-> <<6635, 6449, 3706, 5708>>]],
    [at |-> "150/88.4", ulps |-> 1, v |-> [s |-> 0, e |-> 1023, f |-> <<6636, 6449, 3706, 5708>>]],
    [at |-> "150/88.4", ulps |-> 2, v |-> [s |-> 0, e |-> 1023, f |-> <<6637, 6449, 3706, 5708>>]],
    [at |-> "1.2", ulps |-> 0, v |-> [s |-> 0, e |-> 1023, f |-> <<4915, 6553, 3276, 1638>>]],
    [at |-> "160", ulps |-> 0, v |-> [s |-> 0, e |-> 1030, f |-> <<0, 0, 0, 2048>>]],
    [at |-> "0", ulps |-> 0, v |-> [s |-> 0, e |-> 0, f |-> <<0, 0, 0, 0>>]],
    [at |-> "-0", ulps |-> 0, v |-> [s |-> 1, e |-> 0, f |-> <<0, 0, 0, 0>>]],
    [at |-> "NaN", ulps |-> 0, v |-> NaN],
    [at |-> "Infinity", ulps |-> 0, v |-> [s |-> 0, e |-> 2047, f |-> <<0, 0, 0, 0>>]],
    [at |-> "-Infinity", ulps |-> 0, v |-> [s |-> 1, e |-> 2047, f |-> <<0, 0, 0, 0>>]],
    [at |-> "MAX_VALUE", ulps |-> 0, v |-> [s |-> 0, e |-> 2046, f |-> <<8191, 8191, 8191, 8191>>]] }

\* SCN1: the cut-offs 0, 0.4 and 1 mg/dL and their equivalents in umol/L;
\* 0.39, 0.99, 0.5 and -0.1 mg/dL; 35, 35.36 and 88 umol/L
Scn1Table ==
  { [at |-> "0", ulps |-> -2, v |-> [s |-> 1, e |-> 0, f |-> <<2, 0, 0, 0>>]],
    [at |-> "0", ulps |-> -1, v |-> [s |-> 1, e |-> 0, f |-> <<1, 0, 0, 0>>]],
    [at |-> "0", ulps |-> 0, v |-> [s |-> 0, e |-> 0, f |-> <<0, 0, 0, 0>>]],
    [at |-> "0", ulps |-> 1, v |-> [s |-> 0, e |-> 0, f |-> <<1, 0, 0, 0>>]],
    [at |-> "0", ulps |-> 2, v |-> [s |-> 0, e |-> 0, f |-> <<2, 0, 0, 0>>]],
    [at |-> "0.4", ulps |-> -2, v |-> [s |-> 0, e |-> 1021, f |-> <<6552, 3276, 1638, 4915>>]],
    [at |-> "0.4", ulps |-> -1, v |-> [s |-> 0, e |-> 1021, f |-> <<6553, 3276, 1638, 4915>>]],
    [at |-> "0.4", ulps |-> 0, v |-> [s |-> 0, e |-> 1021, f |-> <<6554, 3276, 1638, 4915>>]],
    [at |-> "0.4", ulps |-> 1, v |-> [s |-> 0, e |-> 1021, f |-> <<6555, 3276, 1638, 4915>>]],
    [at |-> "0.4", ulps |-> 2, v |-> [s |-> 0, e |-> 1021, f |-> <<6556, 3276, 1638, 4915>>]],
    [at |-> "1", ulps |-> -2, v |-> [s |-> 0, e |-> 1022, f |-> <<8190, 8191, 8191, 8191>>]],
    [at |-> "1", ulps |-> -1, v |-> [s |-> 0, e |-> 1022, f |-> <<8191, 8191, 8191, 8191>>]],
    [at |-> "1", ulps |-> 0, v |-> [s |-> 0, e |-> 1023, f |-> <<0, 0, 0, 0>>]],
    [at |-> "1", ulps |-> 1, v |-> [s |-> 0, e |-> 1023, f |-> <<1, 0, 0, 0>>]],
    [at |-> "1", ulps |-> 2, v |-> [s |-> 0, e |-> 1023, f |-> <<2, 0, 0, 0>>]],
    [at |-> "88.4", ulps |-> -2, v |-> [s |-> 0, e |-> 1029, f |-> <<6552, 3276, 1638, 3123>>]],
    [at |-> "88.4", ulps |-> -1, v |-> [s |-> 0, e |-> 1029, f |-> <<6553, 3276, 1638, 3123>>]],
    [at |-> "88.4", ulps |-> 0, v |-> [s |-> 0, e |-> 1029, f |-> <<6554, 3276, 1638, 3123>>]],
    [at |-> "88.4", ulps |-> 1, v |-> [s |-> 0, e |-> 1029, f |-> <<6555, 3276, 1638, 3123>>]],
    [at |-> "88.4", ulps |-> 2, v |-> [s |-> 0, e |-> 1029, f |-> <<6556, 3276, 1638, 3123>>]],
    [at |-> "0.4*88.4", ulps |-> -2, v |-> [s |-> 0, e |-> 1028, f |-> <<1965, 5898, 1310, 860>>]],
    [at |-> "0.4*88.4", ulps |-> -1, v |-> [s |-> 0, e |-> 1028, f |-> <<1966, 5898, 1310, 860>>]],
    [at |-> "0.4*88.4", ulps |-> 0, v |-> [s |-> 0, e |-> 1028, f |-> <<1967, 5898, 1310, 860>>]],
    [at |-> "0.4*88.4", ulps |-> 1, v |-> [s |-> 0, e |-> 1028, f |-> <<1968, 5898, 1310, 860>>]],
    [at |-> "0.4*88.4", ulps |-> 2, v |-> [s |-> 0, e |-> 1028, f |-> <<1969, 5898, 1310, 860>>]],
    [at |-> "0.39", ulps |-> 0, v |-> [s |-> 0, e |-> 1021, f |-> <<2294, 6881, 4259, 4587>>]],
    [at |-> "0.99", ulps |-> 0, v |-> [s |-> 0, e |-> 1022, f |-> <<1966, 5898, 1310, 8028>>]],
    [at |-> "0.5", ulps |-> 0, v |-> [s |-> 0, e |-> 1022, f |-> <<0, 0, 0, 0>>]],
    [at |-> "35", ulps |-> 0, v |-> [s |-> 0, e |-> 1028, f |-> <<0, 0, 0, 768>>]],
    [at |-> "35.36", ulps |-> 0, v |-> [s |-> 0, e |-> 1028, f |-> <<1966, 5898, 1310, 860>>]],
    [at |-> "88", ulps |-> 0, v |-> [s |-> 0, e |-> 1029, f |-> <<0, 0, 0, 3072>>]],
    [at |-> "-0.1", ulps |-> 0, v |-> [s |-> 1, e |-> 1019, f |-> <<6554, 3276, 1638, 4915>>]],
    [at |-> "-0", ulps |-> 0, v |-> [s |-> 1, e |-> 0, f |-> <<0, 0, 0, 0>>]],
    [at |-> "NaN", ulps |-> 0, v |-> NaN],
    [at |-> "Infinity", ulps |-> 0, v |-> [s |-> 0, e |-> 2047, f |-> <<0, 0, 0, 0>>]],
    [at |-> "-Infinity", ulps |-> 0, v |-> [s |-> 1, e |-> 2047, f |-> <<0, 0, 0, 0>>]],
    [at |-> "MAX_VALUE", ulps |-> 0, v |-> [s |-> 0, e |-> 2046, f |-> <<8191, 8191, 8191, 8191>>]] }

Landmark ==
  ("150" :> Num150) @@ ("150/88.4" :> FDiv(Num150, UMOL_PER_MGDL)) @@
  ("1.2" :> Dec(12, 10)) @@ ("160" :> FromInt(160)) @@
  ("0" :> Zero(0)) @@ ("-0" :> Zero(1)) @@ ("NaN" :> NaN) @@
  ("Infinity" :> PosInfinity) @@ ("-Infinity" :> NegInfinity) @@
  ("MAX_VALUE" :> MaxValue) @@
  ("0.4" :> Num0p4) @@ ("1" :> Num1) @@ ("88.4" :> UMOL_PER_MGDL) @@
  ("0.4*88.4" :> FMul(Num0p4, UMOL_PER_MGDL)) @@
  ("0.39" :> Dec(39, 100)) @@ ("0.99" :> Dec(99, 100)) @@
  ("0.5" :> Dec(5, 10)) @@ ("35" :> FromInt(35)) @@
  ("35.36" :> Dec(3536, 100)) @@ ("88" :> FromInt(88)) @@
  ("-0.1" :> Neg(Dec(1, 10)))

SamplesExact ==
  \A t \in Cr72hTable \cup Scn1Table : t.v = Ulps(Landmark[t.at], t.ulps)

Drawn(table) ==
  {t.v : t \in {u \in table : u.ulps \in (0 - MaxUlps)..MaxUlps}}

Cr72hValues == Drawn(Cr72hTable)
Scn1Values == Drawn(Scn1Table)
Numbers == Cr72hValues \cup Scn1Values

\* umol / 88.4 and mgdl * 88.4, computed once for every Number the model
\* draws and for the products and quotients normalizeCreatinine hands on
QuotientOf ==
  [v \in UNION {{w, FMul(w, UMOL_PER_MGDL)} : w \in Numbers} |->
     FDiv(v, UMOL_PER_MGDL)]
ProductOf ==
  [v \in UNION {{w, QuotientOf[w]} : w \in DOMAIN QuotientOf} |->
     FMul(v, UMOL_PER_MGDL)]

mgdlToUmol(mgdl) == ProductOf[mgdl]

\* A faulty variant of umolToMgdl: it multiplies
umolToMgdlMultiplies(umol) == ProductOf[umol]

umolToMgdl(umol) == QuotientOf[umol]

\* Faulty variants of normalizeCreatinine: the unit ignored and every value
\* taken as mg/dL; the test of line 19 left out
normalizeCreatinineAsMgdl(value, unit) ==
  IF ~NumberIsFinite(value) THEN [mgdl |-> NaN, umol |-> NaN]
  ELSE [mgdl |-> value, umol |-> mgdlToUmol(value)]

normalizeCreatinineUnguarded(value, unit) ==
  IF unit = "mg/dL" THEN [mgdl |-> value, umol |-> mgdlToUmol(value)]
  ELSE [mgdl |-> umolToMgdl(value), umol |-> value]

normalizeCreatinine(value, unit) ==
  IF ~NumberIsFinite(value) THEN [mgdl |-> NaN, umol |-> NaN]
  ELSE IF unit = "mg/dL" THEN [mgdl |-> value, umol |-> mgdlToUmol(value)]
  ELSE [mgdl |-> umolToMgdl(value), umol |-> value]

\* Faulty variants of calculatePURKScore: failure to thrive worth one point;
\* high-grade VUR worth two points; the threshold met by 150 umol/L itself
calculatePURKScoreFttOne(inputs) ==
  (IF /\ inputs.creatinine72h_mgdl # Null
      /\ NumberIsFinite(inputs.creatinine72h_mgdl)
      /\ FGt(mgdlToUmol(inputs.creatinine72h_mgdl), Num150)
     THEN 2 ELSE 0)
    + (IF inputs.failureToThrive THEN 1 ELSE 0)
    + (IF inputs.highGradeVUR THEN 1 ELSE 0)
    + (IF inputs.renalDysplasia THEN 1 ELSE 0)

calculatePURKScoreVurTwo(inputs) ==
  (IF /\ inputs.creatinine72h_mgdl # Null
      /\ NumberIsFinite(inputs.creatinine72h_mgdl)
      /\ FGt(mgdlToUmol(inputs.creatinine72h_mgdl), Num150)
     THEN 2 ELSE 0)
    + (IF inputs.failureToThrive THEN 2 ELSE 0)
    + (IF inputs.highGradeVUR THEN 2 ELSE 0)
    + (IF inputs.renalDysplasia THEN 1 ELSE 0)

calculatePURKScoreAtLeast(inputs) ==
  (IF /\ inputs.creatinine72h_mgdl # Null
      /\ NumberIsFinite(inputs.creatinine72h_mgdl)
      /\ FGe(mgdlToUmol(inputs.creatinine72h_mgdl), Num150)
     THEN 2 ELSE 0)
    + (IF inputs.failureToThrive THEN 2 ELSE 0)
    + (IF inputs.highGradeVUR THEN 1 ELSE 0)
    + (IF inputs.renalDysplasia THEN 1 ELSE 0)

\* inputs: [creatinine72h_mgdl (a Number or Null), failureToThrive, highGradeVUR,
\* renalDysplasia]
calculatePURKScore(inputs) ==
  LET creatinine ==
        IF /\ inputs.creatinine72h_mgdl # Null
           /\ NumberIsFinite(inputs.creatinine72h_mgdl)
           /\ FGt(mgdlToUmol(inputs.creatinine72h_mgdl), Num150)
          THEN 2 ELSE 0
  IN  creatinine
        + (IF inputs.failureToThrive THEN 2 ELSE 0)
        + (IF inputs.highGradeVUR THEN 1 ELSE 0)
        + (IF inputs.renalDysplasia THEN 1 ELSE 0)

\* A faulty variant of purkRiskGroup: a score of exactly 2 is not yet
\* Intermediate
purkRiskGroupStrict(score) ==
  IF score >= 4 THEN "High"
  ELSE IF score > 2 THEN "Intermediate"
  ELSE "Low"

purkRiskGroup(score) ==
  IF score >= 4 THEN "High"
  ELSE IF score >= 2 THEN "Intermediate"
  ELSE "Low"

\* Faulty variants of scn1RiskGroup: exactly 0.4 mg/dL is not yet
\* Intermediate; the test of line 59 left out, so that null is compared as the
\* Number it converts to, +0
scn1RiskGroupStrict(scn1_mgdl) ==
  IF scn1_mgdl = Null \/ ~NumberIsFinite(scn1_mgdl) THEN NoGroup
  ELSE IF FGe(scn1_mgdl, Num1) THEN "High"
  ELSE IF FGt(scn1_mgdl, Num0p4) THEN "Intermediate"
  ELSE IF FGe(scn1_mgdl, Num0) THEN "Low"
  ELSE NoGroup

scn1RiskGroupUnguarded(scn1_mgdl) ==
  IF scn1_mgdl = Null THEN "Low"
  ELSE IF FGe(scn1_mgdl, Num1) THEN "High"
  ELSE IF FGe(scn1_mgdl, Num0p4) THEN "Intermediate"
  ELSE IF FGe(scn1_mgdl, Num0) THEN "Low"
  ELSE NoGroup

scn1RiskGroup(scn1_mgdl) ==
  IF scn1_mgdl = Null \/ ~NumberIsFinite(scn1_mgdl) THEN NoGroup
  ELSE IF FGe(scn1_mgdl, Num1) THEN "High"
  ELSE IF FGe(scn1_mgdl, Num0p4) THEN "Intermediate"
  ELSE IF FGe(scn1_mgdl, Num0) THEN "Low"
  ELSE NoGroup

\* table[purk][scn1]
PurkPlusTable ==
  [Low          |-> [Low |-> "Low", Intermediate |-> "Intermediate", High |-> "High"],
   Intermediate |-> [Low |-> "Low", Intermediate |-> "Intermediate", High |-> "High"],
   High         |-> [Low |-> "Intermediate", Intermediate |-> "High", High |-> "High"]]

\* Faulty variants of purkPlusRisk: the table indexed [scn1][purk]; a missing
\* SCN1 group taken as Low
purkPlusRiskSwapped(purk, scn1) ==
  IF scn1 = NoGroup THEN NoGroup ELSE PurkPlusTable[scn1][purk]

purkPlusRiskNullAsLow(purk, scn1) ==
  IF scn1 = NoGroup THEN PurkPlusTable[purk]["Low"] ELSE PurkPlusTable[purk][scn1]

\* the test of line 71 left out: table[purk][null] is undefined
purkPlusRiskUnguarded(purk, scn1) ==
  IF scn1 = NoGroup THEN "undefined" ELSE PurkPlusTable[purk][scn1]

\* the greater of the two groups in place of the table
purkPlusRiskMax(purk, scn1) ==
  IF scn1 = NoGroup THEN NoGroup
  ELSE IF purk = "High" \/ scn1 = "High" THEN "High"
  ELSE IF purk = "Intermediate" \/ scn1 = "Intermediate" THEN "Intermediate"
  ELSE "Low"

purkPlusRisk(purk, scn1) ==
  IF scn1 = NoGroup THEN NoGroup ELSE PurkPlusTable[purk][scn1]

(***************************************************************************)
(* app/page.tsx                                                            *)
(***************************************************************************)
\* the page's own scorer: no Number.isFinite test
purkPoints(inputs) ==
  LET creatinine ==
        IF /\ inputs.creatinine72h_mgdl # Null
           /\ FGt(mgdlToUmol(inputs.creatinine72h_mgdl), Num150)
          THEN 2 ELSE 0
  IN  creatinine
        + (IF inputs.failureToThrive THEN 2 ELSE 0)
        + (IF inputs.highGradeVUR THEN 1 ELSE 0)
        + (IF inputs.renalDysplasia THEN 1 ELSE 0)

\* The page's own copies of the functions of components/calculations.ts
\* (page.tsx 6-75, and again in the second page, part_000 44-100).  The
\* conversion factor is the same literal 88.4, so the products and quotients
\* are those of ProductOf and QuotientOf.
page_mgdlToUmol(mgdl) == ProductOf[mgdl]

page_umolToMgdl(umol) == QuotientOf[umol]

\* A faulty variant of the page's normalizeCreatinine: the test of line 20
\* left out
page_normalizeCreatinineUnguarded(value, unit) ==
  IF unit = "mg/dL" THEN [mgdl |-> value, umol |-> page_mgdlToUmol(value)]
  ELSE [mgdl |-> page_umolToMgdl(value), umol |-> value]

page_normalizeCreatinine(value, unit) ==
  IF ~NumberIsFinite(value) THEN [mgdl |-> NaN, umol |-> NaN]
  ELSE IF unit = "mg/dL" THEN [mgdl |-> value, umol |-> page_mgdlToUmol(value)]
  ELSE [mgdl |-> page_umolToMgdl(value), umol |-> value]

page_purkRiskGroup(score) ==
  IF score >= 4 THEN "High"
  ELSE IF score >= 2 THEN "Intermediate"
  ELSE "Low"

page_scn1RiskGroup(scn1_mgdl) ==
  IF scn1_mgdl = Null \/ ~NumberIsFinite(scn1_mgdl) THEN NoGroup
  ELSE IF FGe(scn1_mgdl, Num1) THEN "High"
  ELSE IF FGe(scn1_mgdl, Num0p4) THEN "Intermediate"
  ELSE IF FGe(scn1_mgdl, Num0) THEN "Low"
  ELSE NoGroup

page_PurkPlusTable ==
  [Low          |-> [Low |-> "Low", Intermediate |-> "Intermediate", High |-> "High"],
   Intermediate |-> [Low |-> "Low", Intermediate |-> "Intermediate", High |-> "High"],
   High         |-> [Low |-> "Intermediate", Intermediate |-> "High", High |-> "High"]]

page_purkPlusRisk(purk, scn1) ==
  IF scn1 = NoGroup THEN NoGroup ELSE page_PurkPlusTable[purk][scn1]

\* the SCN1 legend the page shows, in umol/L: Low below the first number,
\* Intermediate from the first to the second, High from the second
LegendIntermediateUmol == 35
LegendHighUmol == 88

\* the PURK+ matrix the page renders: one row per SCN1 group s, one cell per
\* column PURK Low, PURK Intermediate, PURK High
MatrixColumns == <<"Low", "Intermediate", "High">>
MatrixRows ==
  << [s |-> "Low",          row |-> <<"Low", "Low", "Intermediate">>],
     [s |-> "Intermediate", row |-> <<"Intermediate", "Intermediate", "High">>],
     [s |-> "High",         row |-> <<"High", "High", "High">>] >>

MatrixCell(scn1, purk) ==
  LET r == CHOOSE i \in 1..Len(MatrixRows) : MatrixRows[i].s = scn1
      c == CHOOSE j \in 1..Len(MatrixColumns) : MatrixColumns[j] = purk
  IN  MatrixRows[r].row[c]

(***************************************************************************)
(* The calculator form.  The seven inputs are the component's state        *)
(* (useState); the other variables are the values derived from them on     *)
(* every render.  A useMemo value is recomputed when one of its            *)
(* dependencies differs (Object.is) from the render before, and kept       *)
(* otherwise.                                                              *)
(***************************************************************************)
VARIABLES
  cr72h, cr72hUnit, ftt, vur, dysplasia,   \* PURK inputs
  scn1, scn1Unit,                          \* SCN1 input
  cr72hNorm, scn1Norm,                     \* normalized readings, or Null
  purkScore,                               \* calculatePURKScore of the inputs (part_000 20-29)
  purkPointsScore,                         \* purkPoints of the inputs (page.tsx)
  purkGroup, scn1Group, combined,          \* risk groups and PURK+ risk
  call                                     \* the last direct call of a function

inputVars == <<cr72h, cr72hUnit, ftt, vur, dysplasia, scn1, scn1Unit>>
derivedVars ==
  <<cr72hNorm, scn1Norm, purkScore, purkPointsScore, purkGroup, scn1Group, combined>>
vars == <<inputVars, derivedVars, call>>

NoCall == [fn |-> "none"]

\* cr72hNorm?.mgdl ?? null
MgdlOrNull(norm) == IF norm = Null THEN Null ELSE norm.mgdl

PURKInputs(mgdl, f, v, d) ==
  [creatinine72h_mgdl |-> mgdl,
   failureToThrive |-> f, highGradeVUR |-> v, renalDysplasia |-> d]

\* A faulty variant of NormOf: an empty field read as Number("") = 0
NormOfEmptyAsZero(value, unit) ==
  IF value = Undefined THEN normalizeCreatinine(Zero(0), unit)
  ELSE normalizeCreatinine(value, unit)

\* value == null ? null : normalizeCreatinine(value, unit)
NormOf(value, unit) ==
  IF value = Undefined THEN Null ELSE normalizeCreatinine(value, unit)

\* A faulty variant of Render: dysplasia missing from the dependencies of the
\* score
RenderStale(c, cu, f, v, d, s, su) ==
  /\ cr72hNorm' = IF c = cr72h /\ cu = cr72hUnit THEN cr72hNorm ELSE NormOf(c, cu)
  /\ scn1Norm' = IF s = scn1 /\ su = scn1Unit THEN scn1Norm ELSE NormOf(s, su)
  /\ LET same == /\ \/ c = cr72h /\ cu = cr72hUnit
                    \/ cr72hNorm' = Null /\ cr72hNorm = Null
                 /\ f = ftt /\ v = vur
     IN  /\ purkScore' = IF same THEN purkScore
                         ELSE calculatePURKScore(PURKInputs(MgdlOrNull(cr72hNorm'), f, v, d))
         /\ purkPointsScore' = IF same THEN purkPointsScore
                               ELSE purkPoints(PURKInputs(MgdlOrNull(cr72hNorm'), f, v, d))
  /\ purkGroup' = purkRiskGroup(purkScore')
  /\ scn1Group' = scn1RiskGroup(MgdlOrNull(scn1Norm'))
  /\ combined' = purkPlusRisk(purkGroup', scn1Group')

\* one render with the inputs c, cu, f, v, d, s, su
Render(c, cu, f, v, d, s, su) ==
  /\ cr72hNorm' = IF c = cr72h /\ cu = cr72hUnit THEN cr72hNorm ELSE NormOf(c, cu)
  /\ scn1Norm' = IF s = scn1 /\ su = scn1Unit THEN scn1Norm ELSE NormOf(s, su)
  \* dependencies [cr72hNorm, ftt, vur, dysplasia]: a recomputed cr72hNorm is a new
  \* object unless it is null again
  /\ LET same == /\ \/ c = cr72h /\ cu = cr72hUnit
                    \/ cr72hNorm' = Null /\ cr72hNorm = Null
                 /\ f = ftt /\ v = vur /\ d = dysplasia
     IN  /\ purkScore' = IF same THEN purkScore
                         ELSE calculatePURKScore(PURKInputs(MgdlOrNull(cr72hNorm'), f, v, d))
         /\ purkPointsScore' = IF same THEN purkPointsScore
                               ELSE purkPoints(PURKInputs(MgdlOrNull(cr72hNorm'), f, v, d))
  /\ purkGroup' = purkRiskGroup(purkScore')
  /\ scn1Group' = scn1RiskGroup(MgdlOrNull(scn1Norm'))
  /\ combined' = purkPlusRisk(purkGroup', scn1Group')

Init ==
  /\ SamplesExact
  /\ cr72h = Undefined /\ cr72hUnit = "mg/dL"
  /\ ftt = FALSE /\ vur = FALSE /\ dysplasia = FALSE
  /\ scn1 = Undefined /\ scn1Unit = "mg/dL"
  /\ cr72hNorm = NormOf(cr72h, cr72hUnit)
  /\ scn1Norm = NormOf(scn1, scn1Unit)
  /\ purkScore = calculatePURKScore(PURKInputs(MgdlOrNull(cr72hNorm), ftt, vur, dysplasia))
  /\ purkPointsScore = purkPoints(PURKInputs(MgdlOrNull(cr72hNorm), ftt, vur, dysplasia))
  /\ purkGroup = purkRiskGroup(purkScore)
  /\ scn1Group = scn1RiskGroup(MgdlOrNull(scn1Norm))
  /\ combined = purkPlusRisk(purkGroup, scn1Group)
  /\ call = NoCall

\* onValue of the >72h creatinine field: "" gives undefined, else Number(text)
SetCr72h ==
  \E n \in Cr72hValues \cup {Undefined} :
    /\ cr72h' = n
    /\ UNCHANGED <<cr72hUnit, ftt, vur, dysplasia, scn1, scn1Unit, call>>
    /\ Render(n, cr72hUnit, ftt, vur, dysplasia, scn1, scn1Unit)

\* A faulty variant of the unit selector: the typed value is converted to the
\* unit chosen instead of being left as typed
SetCr72hUnitConverting ==
  \E u \in Unit :
    LET converted == IF cr72h = Undefined \/ u = cr72hUnit THEN cr72h
                     ELSE IF u = "mg/dL" THEN FDiv(cr72h, UMOL_PER_MGDL)
                     ELSE FMul(cr72h, UMOL_PER_MGDL)
    IN  /\ cr72hUnit' = u
        /\ cr72h' = converted
        /\ UNCHANGED <<ftt, vur, dysplasia, scn1, scn1Unit, call>>
        /\ Render(converted, u, ftt, vur, dysplasia, scn1, scn1Unit)

SetCr72hUnit ==
  \E u \in Unit :
    /\ cr72hUnit' = u
    /\ UNCHANGED <<cr72h, ftt, vur, dysplasia, scn1, scn1Unit, call>>
    /\ Render(cr72h, u, ftt, vur, dysplasia, scn1, scn1Unit)

SetFtt ==
  \E b \in BOOLEAN :
    /\ ftt' = b
    /\ UNCHANGED <<cr72h, cr72hUnit, vur, dysplasia, scn1, scn1Unit, call>>
    /\ Render(cr72h, cr72hUnit, b, vur, dysplasia, scn1, scn1Unit)

SetVur ==
  \E b \in BOOLEAN :
    /\ vur' = b
    /\ UNCHANGED <<cr72h, cr72hUnit, ftt, dysplasia, scn1, scn1Unit, call>>
    /\ Render(cr72h, cr72hUnit, ftt, b, dysplasia, scn1, scn1Unit)

SetDysplasia ==
  \E b \in BOOLEAN :
    /\ dysplasia' = b
    /\ UNCHANGED <<cr72h, cr72hUnit, ftt, vur, scn1, scn1Unit, call>>
    /\ Render(cr72h, cr72hUnit, ftt, vur, b, scn1, scn1Unit)

SetScn1 ==
  \E n \in Scn1Values \cup {Undefined} :
    /\ scn1' = n
    /\ UNCHANGED <<cr72h, cr72hUnit, ftt, vur, dysplasia, scn1Unit, call>>
    /\ Render(cr72h, cr72hUnit, ftt, vur, dysplasia, n, scn1Unit)

SetScn1Unit ==
  \E u \in Unit :
    /\ scn1Unit' = u
    /\ UNCHANGED <<cr72h, cr72hUnit, ftt, vur, dysplasia, scn1, call>>
    /\ Render(cr72h, cr72hUnit, ftt, vur, dysplasia, scn1, u)

\* what page.tsx computes from the inputs with its own copies (lines 236-250)
PageNorm(value, unit) ==
  IF value = Undefined THEN Null ELSE page_normalizeCreatinine(value, unit)
PageScore ==
  purkPoints(PURKInputs(MgdlOrNull(PageNorm(cr72h, cr72hUnit)), ftt, vur, dysplasia))
PageGroup == page_purkRiskGroup(PageScore)
PageScn1Group == page_scn1RiskGroup(MgdlOrNull(PageNorm(scn1, scn1Unit)))
PageCombined == page_purkPlusRisk(PageGroup, PageScn1Group)

\* the dash a RiskBadge shows for null
Placeholder == "-"

\* what a RiskBadge shows for a level: the placeholder for null, else the
\* level (followed by " Risk") in the level's tone
RiskBadge(level) ==
  IF level = NoGroup THEN [text |-> Placeholder, tone |-> "slate"]
  ELSE [text |-> level,
        tone |-> IF level = "Low" THEN "green"
                 ELSE IF level = "Intermediate" THEN "yellow" ELSE "red"]

\* {!scn1Group && (... SCN1 Required ...)}
Scn1RequiredShown == scn1Group = NoGroup

Next ==
  \/ SetCr72h \/ SetCr72hUnit \/ SetFtt \/ SetVur \/ SetDysplasia
  \/ SetScn1 \/ SetScn1Unit

Spec == Init /\ [][Next]_vars

(****************************************************************************)
(* The functions called directly: the exports of components/calculations.ts *)
(* as any importer may call them, and the page's purkPoints.  Each action   *)
(* is one call, with arguments of the declared parameter types, and records *)
(* the value returned.                                                      *)
(****************************************************************************)
NumberOrNull == Numbers \cup {Null}

CallNormalizeCreatinine ==
  /\ \E value \in Numbers, unit \in Unit :
       call' = [fn |-> "normalizeCreatinine", value |-> value, unit |-> unit,
                ret |-> normalizeCreatinine(value, unit)]
  /\ UNCHANGED <<inputVars, derivedVars>>

CallCalculatePURKScore ==
  /\ \E m \in NumberOrNull, f \in BOOLEAN, v \in BOOLEAN, d \in BOOLEAN :
       call' = [fn |-> "calculatePURKScore", inputs |-> PURKInputs(m, f, v, d),
                ret |-> calculatePURKScore(PURKInputs(m, f, v, d))]
  /\ UNCHANGED <<inputVars, derivedVars>>

CallPurkPoints ==
  /\ \E m \in NumberOrNull, f \in BOOLEAN, v \in BOOLEAN, d \in BOOLEAN :
       call' = [fn |-> "purkPoints", inputs |-> PURKInputs(m, f, v, d),
                ret |-> purkPoints(PURKInputs(m, f, v, d))]
  /\ UNCHANGED <<inputVars, derivedVars>>

CallPurkRiskGroup ==
  /\ \E score \in 0..MaxScoreArg :
       call' = [fn |-> "purkRiskGroup", score |-> score,
                ret |-> purkRiskGroup(score)]
  /\ UNCHANGED <<inputVars, derivedVars>>

CallScn1RiskGroup ==
  /\ \E m \in NumberOrNull :
       call' = [fn |-> "scn1RiskGroup", scn1_mgdl |-> m,
                ret |-> scn1RiskGroup(m)]
  /\ UNCHANGED <<inputVars, derivedVars>>

CallPurkPlusRisk ==
  /\ \E purk \in RiskGroup, s \in RiskGroup \cup {NoGroup} :
       call' = [fn |-> "purkPlusRisk", purk |-> purk, scn1 |-> s,
                ret |-> purkPlusRisk(purk, s)]
  /\ UNCHANGED <<inputVars, derivedVars>>

NextCore ==
  \/ CallNormalizeCreatinine \/ CallCalculatePURKScore \/ CallPurkPoints
  \/ CallPurkRiskGroup \/ CallScn1RiskGroup \/ CallPurkPlusRisk

SpecCore == Init /\ [][NextCore]_vars

(***************************************************************************)
(* The properties.  Where a property compares a reading with a decimal     *)
(* quantity, the comparison is made on the exact values: a finite Number   *)
(* is the rational (-1)^s * Sig * 2^Exp2.                                  *)
(***************************************************************************)
\* -1, 0 or 1 as v < n/d, v = n/d or v > n/d, for a finite v with sign bit 0,
\* n >= 0 and d > 0
RatCmp(v, n, d) ==
  IF Exp2(v) >= 0
    THEN BigCmp(BigShl(BigMul(Sig(v), BigFromInt(d)), Exp2(v)), BigFromInt(n))
    ELSE BigCmp(BigMul(Sig(v), BigFromInt(d)), BigShl(BigFromInt(n), 0 - Exp2(v)))

\* v < 0
IsNegative(v) == ~IsNaN(v) /\ v.s = 1 /\ ~IsZero(v)
\* v is finite and v >= n/d, for n >= 0
AtLeast(v, n, d) ==
  /\ NumberIsFinite(v)
  /\ \/ v.s = 0 /\ RatCmp(v, n, d) >= 0
     \/ IsZero(v) /\ n = 0
\* v is finite and v > n/d, for n >= 0
Exceeds(v, n, d) == NumberIsFinite(v) /\ v.s = 0 /\ RatCmp(v, n, d) > 0

\* the points of the three flags of a PURKInputs record
FlagPoints(inputs) ==
  (IF inputs.failureToThrive THEN 2 ELSE 0)
    + (IF inputs.highGradeVUR THEN 1 ELSE 0)
    + (IF inputs.renalDysplasia THEN 1 ELSE 0)

NoFlags == ~ftt /\ ~vur /\ ~dysplasia

\* C1: for every presentation group p and every defined follow-up group f,
\* purkPlusRisk(p, f) is the cell of the fixed table in row f and column p
\* (f Low: Low, Low, Intermediate; f Intermediate: Intermediate, Intermediate,
\* High; f High: High, High, High, for p Low, Intermediate, High), and the
\* matrix on the page shows the same cell.
C1_CombinedTable ==
  (call.fn = "purkPlusRisk" /\ call.scn1 # NoGroup) =>
    /\ call.ret =
         CASE call.scn1 = "Low" ->
                (IF call.purk = "High" THEN "Intermediate" ELSE "Low")
           [] call.scn1 = "Intermediate" ->
                (IF call.purk = "High" THEN "High" ELSE "Intermediate")
           [] call.scn1 = "High" -> "High"
    /\ MatrixCell(call.scn1, call.purk) = call.ret

C1_Witness ==
  /\ call.fn = "purkPlusRisk" /\ call.purk = "High" /\ call.scn1 = "Low"
  /\ call.ret = "Intermediate"
  /\ MatrixCell("Low", "High") = "Intermediate"

\* C2: purkPlusRisk returns null exactly if the follow-up group is null; with
\* a follow-up group it returns Low, Intermediate or High.
C2_NullIffNoFollowUp ==
  call.fn = "purkPlusRisk" =>
    /\ call.ret = NoGroup <=> call.scn1 = NoGroup
    /\ call.scn1 # NoGroup => call.ret \in RiskGroup

C2_Witness ==
  /\ call.fn = "purkPlusRisk" /\ call.purk = "High" /\ call.scn1 = NoGroup
  /\ call.ret = NoGroup

\* C3: for every finite v >= 0 (mg/dL), scn1RiskGroup(v) is High if v >= 1.0,
\* Intermediate if 0.4 <= v < 1.0 and Low if 0 <= v < 0.4.
C3_FollowUpBands ==
  (/\ call.fn = "scn1RiskGroup" /\ call.scn1_mgdl # Null
   /\ AtLeast(call.scn1_mgdl, 0, 1)) =>
    call.ret = IF AtLeast(call.scn1_mgdl, 1, 1) THEN "High"
               ELSE IF AtLeast(call.scn1_mgdl, 4, 10) THEN "Intermediate"
               ELSE "Low"

C3_Witness ==
  /\ call.fn = "scn1RiskGroup" /\ call.scn1_mgdl = Num0p4
  /\ call.ret = "Intermediate"

\* C4: a negative follow-up concentration, entered in either unit, has no
\* follow-up group, and so no combined risk.
C4_NegativeHasNoGroup ==
  (scn1 # Undefined /\ IsNegative(scn1)) =>
    scn1Group = NoGroup /\ combined = NoGroup

\* C5: if the follow-up reading is absent, or is not finite (as entered or
\* after normalization), the follow-up group is null, not Low or any other
\* risk group.
C5_NoFollowUpNoGroup ==
  (\/ scn1 = Undefined
   \/ ~NumberIsFinite(scn1)
   \/ scn1Norm = Null
   \/ ~NumberIsFinite(scn1Norm.mgdl)) => scn1Group = NoGroup

C5_Witness ==
  /\ scn1 = NegInfinity /\ scn1Unit = "umol/L"
  /\ scn1Norm # Null /\ IsNaN(scn1Norm.mgdl)
  /\ scn1Group = NoGroup

\* C6: calculatePURKScore is 2 if the >72h reading is present, finite and above
\* 150 umol/L (88.4 times the reading in mg/dL exceeds 150), else 0, plus 2 for
\* failure to thrive, 1 for high-grade VUR and 1 for renal dysplasia.
C6_ScoreIsSum ==
  call.fn = "calculatePURKScore" =>
    call.ret =
      (IF /\ call.inputs.creatinine72h_mgdl # Null
          /\ Exceeds(call.inputs.creatinine72h_mgdl, 1500, 884)
         THEN 2 ELSE 0)
        + FlagPoints(call.inputs)

C6_Witness ==
  /\ call.fn = "calculatePURKScore"
  /\ call.inputs = PURKInputs(Null, TRUE, TRUE, TRUE)
  /\ call.ret = 4

\* C7: the presentation score is in 0..6 for every input, and each of 0, 1, 2,
\* 3, 4, 5 and 6 is the score of some input.
EveryScoreProduced ==
  \A k \in 0..6 :
    \E m \in NumberOrNull, f \in BOOLEAN, v \in BOOLEAN, d \in BOOLEAN :
      calculatePURKScore(PURKInputs(m, f, v, d)) = k

C7_ScoreRange ==
  /\ call.fn \in {"calculatePURKScore", "purkPoints"} => call.ret \in 0..6
  /\ EveryScoreProduced

C7_Witness ==
  /\ call.fn = "calculatePURKScore" /\ call.ret = 6
  /\ call.inputs.creatinine72h_mgdl # Null

\* C8: with no flag set, a >72h reading of exactly 150 umol/L (entered as 150
\* umol/L, or as the mg/dL value 150 umol/L converts to) scores 0, and a finite
\* reading above 150 umol/L, in either unit, scores 2.
C8_StrictThreshold ==
  (cr72h # Undefined /\ NoFlags) =>
    /\ (\/ cr72hUnit = "umol/L" /\ cr72h = Num150
        \/ cr72hUnit = "mg/dL" /\ cr72h = umolToMgdl(Num150))
         => purkScore = 0 /\ purkPointsScore = 0
    /\ (\/ cr72hUnit = "umol/L" /\ Exceeds(cr72h, 150, 1)
        \/ cr72hUnit = "mg/dL" /\ Exceeds(cr72h, 1500, 884))
         => purkScore = 2 /\ purkPointsScore = 2

C8_Witness ==
  /\ cr72hUnit = "umol/L" /\ cr72h = Num150 /\ NoFlags
  /\ cr72hNorm # Null /\ cr72hNorm.umol = Num150
  /\ purkScore = 0 /\ purkPointsScore = 0

C10_PresentationBands ==
  (call.fn = "purkRiskGroup" /\ call.score \in 0..6) =>
    call.ret = CASE call.score \in {0, 1} -> "Low"
                 [] call.score \in {2, 3} -> "Intermediate"
                 [] call.score \in {4, 5, 6} -> "High"

C10_Witness ==
  call.fn = "purkRiskGroup" /\ call.score = 2 /\ call.ret = "Intermediate"

\* C11: normalizeCreatinine of NaN, +Infinity or -Infinity, in either unit,
\* returns NaN in both components; of a finite value it returns NaN in
\* neither.
C11_NonFinitePropagates ==
  call.fn = "normalizeCreatinine" =>
    IF NumberIsFinite(call.value)
      THEN ~IsNaN(call.ret.mgdl) /\ ~IsNaN(call.ret.umol)
      ELSE IsNaN(call.ret.mgdl) /\ IsNaN(call.ret.umol)

C11_Witness ==
  /\ call.fn = "normalizeCreatinine" /\ call.value = PosInfinity
  /\ call.unit = "umol/L"
  /\ IsNaN(call.ret.mgdl) /\ IsNaN(call.ret.umol)

\* the magnitude of a finite Number in units of 2^e0, for e0 <= Exp2(v)
MagAligned(v, e0) == BigShl(Sig(v), Exp2(v) - e0)
MinExp2(a, b) == IF Exp2(a) <= Exp2(b) THEN Exp2(a) ELSE Exp2(b)
\* | |a| - |b| | in units of 2^e0
MagDiff(a, b, e0) ==
  IF BigCmp(MagAligned(a, e0), MagAligned(b, e0)) >= 0
    THEN BigSub(MagAligned(a, e0), MagAligned(b, e0))
    ELSE BigSub(MagAligned(b, e0), MagAligned(a, e0))
\* r and v are finite and |r - v| * n <= |v|, as exact rationals
WithinRelative(r, v, n) ==
  /\ NumberIsFinite(r) /\ NumberIsFinite(v)
  /\ r.s = v.s \/ (IsZero(r) /\ IsZero(v))
  /\ BigCmp(BigMul(MagDiff(r, v, MinExp2(r, v)), BigFromInt(n)),
            MagAligned(v, MinExp2(r, v))) <= 0

\* the mg/dL value that comes back when the umol component of a
\* normalizeCreatinine result is normalized as a umol/L reading
BackToMgdl(ret) == normalizeCreatinine(ret.umol, "umol/L").mgdl

\* C12 (as stated): for every finite v, normalizing v as mg/dL and normalizing
\* the umol component of the result as umol/L gives back mgdl = v exactly.
C12_RoundTripExact ==
  (/\ call.fn = "normalizeCreatinine" /\ call.unit = "mg/dL"
   /\ NumberIsFinite(call.value)) =>
    BackToMgdl(call.ret) = call.value

\* C12 (amended): for every finite v, if v * 88.4 is finite the mg/dL value
\* that comes back is within 1e-9 of v, relative to v (it need not equal v);
\* if v * 88.4 overflows, the umol component is an infinity and NaN comes back.
C12_RoundTripClose ==
  (/\ call.fn = "normalizeCreatinine" /\ call.unit = "mg/dL"
   /\ NumberIsFinite(call.value)) =>
    IF NumberIsFinite(call.ret.umol)
      THEN WithinRelative(BackToMgdl(call.ret), call.value, 10 ^ 9)
      ELSE IsNaN(BackToMgdl(call.ret))

C12_Witness ==
  /\ call.fn = "normalizeCreatinine" /\ call.unit = "mg/dL"
  /\ NumberIsFinite(call.value) /\ NumberIsFinite(call.ret.umol)
  /\ BackToMgdl(call.ret) # call.value
  /\ WithinRelative(BackToMgdl(call.ret), call.value, 10 ^ 9)

\* a value of the type number
IsNumber(x) ==
  /\ DOMAIN x = {"s", "e", "f"}
  /\ x.s \in {0, 1} /\ x.e \in 0..ExpMax
  /\ DOMAIN x.f = 1..FracLimbs
  /\ \A i \in 1..FracLimbs : x.f[i] \in 0..(LimbBase - 1)

\* C13: every call of normalizeCreatinine, calculatePURKScore, purkRiskGroup,
\* scn1RiskGroup and purkPlusRisk returns, and returns a value of the declared
\* result type ({mgdl, umol} of numbers; number; RiskGroup; RiskGroup | null;
\* RiskGroup | null), also for NaN, infinities, negative numbers, a null
\* reading and a null follow-up group.
C13_CoreIsTotal ==
  /\ call.fn = "normalizeCreatinine" =>
       /\ DOMAIN call.ret = {"mgdl", "umol"}
       /\ IsNumber(call.ret.mgdl) /\ IsNumber(call.ret.umol)
  /\ call.fn = "calculatePURKScore" => call.ret \in Nat
  /\ call.fn = "purkRiskGroup" => call.ret \in RiskGroup
  /\ call.fn = "scn1RiskGroup" => call.ret \in RiskGroup \cup {NoGroup}
  /\ call.fn = "purkPlusRisk" => call.ret \in RiskGroup \cup {NoGroup}

C13_Witness ==
  /\ call.fn = "scn1RiskGroup" /\ call.scn1_mgdl = NaN
  /\ call.ret = NoGroup

\* C14: with no >72h creatinine entered, no flag set and no follow-up value
\* entered, at the start and whenever the form is back at these inputs, the
\* score is 0, the presentation group is Low, and the follow-up group and the
\* combined risk are null.
C14_EmptyForm ==
  (cr72h = Undefined /\ NoFlags /\ scn1 = Undefined) =>
    /\ purkScore = 0 /\ purkPointsScore = 0
    /\ purkGroup = "Low"
    /\ scn1Group = NoGroup
    /\ combined = NoGroup

C14_Witness ==
  /\ cr72h = Undefined /\ NoFlags /\ scn1 = Undefined
  /\ cr72hUnit = "umol/L" /\ scn1Unit = "umol/L"
  /\ purkScore = 0 /\ purkGroup = "Low"
  /\ scn1Group = NoGroup /\ combined = NoGroup

\* C15: a follow-up reading entered in umol/L is classified as the legend
\* says: Low below 35 umol/L, Intermediate from 35 to 88 umol/L, High from
\* 88 umol/L (for a finite reading that is not negative).
C15_LegendMatches ==
  (/\ scn1 # Undefined /\ scn1Unit = "umol/L"
   /\ AtLeast(scn1, 0, 1)) =>
    scn1Group = IF AtLeast(scn1, LegendHighUmol, 1) THEN "High"
                ELSE IF AtLeast(scn1, LegendIntermediateUmol, 1)
                  THEN "Intermediate"
                ELSE "Low"

\* C16: after any sequence of input events the values shown are those of the
\* pipeline applied to the current inputs: each normalized reading, the score,
\* the presentation group, the follow-up group and the combined risk are what
\* a fresh computation from the seven inputs gives.
C16_NoStaleValue ==
  /\ cr72hNorm = NormOf(cr72h, cr72hUnit)
  /\ scn1Norm = NormOf(scn1, scn1Unit)
  /\ purkScore =
       calculatePURKScore(
         PURKInputs(MgdlOrNull(NormOf(cr72h, cr72hUnit)), ftt, vur, dysplasia))
  /\ purkPointsScore =
       purkPoints(
         PURKInputs(MgdlOrNull(NormOf(cr72h, cr72hUnit)), ftt, vur, dysplasia))
  /\ purkGroup =
       purkRiskGroup(calculatePURKScore(
         PURKInputs(MgdlOrNull(NormOf(cr72h, cr72hUnit)), ftt, vur, dysplasia)))
  /\ scn1Group = scn1RiskGroup(MgdlOrNull(NormOf(scn1, scn1Unit)))
  /\ combined =
       purkPlusRisk(
         purkRiskGroup(calculatePURKScore(
           PURKInputs(MgdlOrNull(NormOf(cr72h, cr72hUnit)), ftt, vur, dysplasia))),
         scn1RiskGroup(MgdlOrNull(NormOf(scn1, scn1Unit))))

C16_Witness ==
  /\ cr72h = Num150 /\ cr72hUnit = "umol/L"
  /\ ftt /\ ~vur /\ dysplasia
  /\ scn1 = Num1 /\ scn1Unit = "umol/L"
  /\ purkScore = 3 /\ purkGroup = "Intermediate"
  /\ scn1Group = "Low" /\ combined = "Low"

\* C17: in every state of the form the SCN1 Required notice is shown exactly
\* if the badge of the combined risk shows the placeholder, which is exactly
\* if the follow-up group is null, which is exactly if the follow-up value is
\* empty, not finite or negative; the badge of the presentation group never
\* shows the placeholder.
C17_NoticeIffNoFollowUp ==
  /\ Scn1RequiredShown <=> RiskBadge(combined).text = Placeholder
  /\ RiskBadge(combined).text = Placeholder <=> scn1Group = NoGroup
  /\ scn1Group = NoGroup <=>
       (scn1 = Undefined \/ ~NumberIsFinite(scn1) \/ IsNegative(scn1))
  /\ RiskBadge(purkGroup).text # Placeholder

\* the order Low < Intermediate < High
Rank(g) == IF g = "Low" THEN 1 ELSE IF g = "Intermediate" THEN 2 ELSE 3
Min2(a, b) == IF a <= b THEN a ELSE b

\* some pair of groups whose combined risk is neither the greater nor the
\* lesser of the two
NeitherMaxNorMin ==
  \E p \in RiskGroup, f \in RiskGroup :
    /\ Rank(purkPlusRisk(p, f)) # Max2(Rank(p), Rank(f))
    /\ Rank(purkPlusRisk(p, f)) # Min2(Rank(p), Rank(f))

\* C18: for every presentation group p and follow-up group f,
\* f <= purkPlusRisk(p, f) <= max(p, f); the result is f if p is Low or
\* Intermediate, and f raised by one step, at most to High, if p is High; the
\* result is not always the greater and not always the lesser of the two.
C18_AnchoredOnFollowUp ==
  /\ (call.fn = "purkPlusRisk" /\ call.scn1 # NoGroup) =>
       /\ Rank(call.scn1) <= Rank(call.ret)
       /\ Rank(call.ret) <= Max2(Rank(call.purk), Rank(call.scn1))
       /\ call.purk \in {"Low", "Intermediate"} => call.ret = call.scn1
       /\ call.purk = "High" =>
            Rank(call.ret) = Min2(Rank(call.scn1) + 1, Rank("High"))
  /\ NeitherMaxNorMin

C18_Witness ==
  /\ call.fn = "purkPlusRisk" /\ call.purk = "High"
  /\ call.scn1 = "Intermediate" /\ call.ret = "High"

\* the follow-up group and the score the pipeline gives to a reading u entered
\* in umol/L
GroupAsUmol(u) == scn1RiskGroup(MgdlOrNull(NormOf(u, "umol/L")))
ScoreAsUmol(u) ==
  calculatePURKScore(PURKInputs(MgdlOrNull(NormOf(u, "umol/L")), ftt, vur, dysplasia))
\* a field in mg/dL is empty or holds a finite m whose product m * 88.4 is
\* finite
Convertible(m) ==
  m = Undefined \/ (NumberIsFinite(m) /\ NumberIsFinite(mgdlToUmol(m)))
\* the same reading in umol/L
InUmol(m) == IF m = Undefined THEN Undefined ELSE mgdlToUmol(m)

\* C19 (as stated): for every finite m, entering m in mg/dL and entering
\* m * 88.4 in umol/L give the same follow-up group, the same score (with the
\* same flags) and the same combined risk.
C19_UnitIndependent ==
  /\ (scn1 # Undefined /\ scn1Unit = "mg/dL" /\ NumberIsFinite(scn1)) =>
       GroupAsUmol(mgdlToUmol(scn1)) = scn1Group
  /\ (cr72h # Undefined /\ cr72hUnit = "mg/dL" /\ NumberIsFinite(cr72h)) =>
       ScoreAsUmol(mgdlToUmol(cr72h)) = purkScore
  /\ (/\ scn1 # Undefined /\ scn1Unit = "mg/dL" /\ NumberIsFinite(scn1)
      /\ cr72h # Undefined /\ cr72hUnit = "mg/dL" /\ NumberIsFinite(cr72h)) =>
       purkPlusRisk(purkRiskGroup(ScoreAsUmol(mgdlToUmol(cr72h))),
                    GroupAsUmol(mgdlToUmol(scn1))) = combined

\* C19 (amended): the same, for every finite m whose product m * 88.4 is
\* finite.  If the product overflows, the reading in umol/L is an infinity,
\* which has no follow-up group and adds no points, while m in mg/dL is
\* classified as the finite value it is.
C19_UnitIndependentIfFinite ==
  /\ (scn1 # Undefined /\ scn1Unit = "mg/dL" /\ NumberIsFinite(scn1)) =>
       IF NumberIsFinite(mgdlToUmol(scn1))
         THEN GroupAsUmol(mgdlToUmol(scn1)) = scn1Group
         ELSE /\ GroupAsUmol(mgdlToUmol(scn1)) = NoGroup
              /\ scn1Group = IF scn1.s = 0 THEN "High" ELSE NoGroup
  /\ (cr72h # Undefined /\ cr72hUnit = "mg/dL" /\ NumberIsFinite(cr72h)) =>
       IF NumberIsFinite(mgdlToUmol(cr72h))
         THEN ScoreAsUmol(mgdlToUmol(cr72h)) = purkScore
         ELSE /\ ScoreAsUmol(mgdlToUmol(cr72h)) = FlagPoints(PURKInputs(Null, ftt, vur, dysplasia))
              /\ purkScore = ScoreAsUmol(mgdlToUmol(cr72h)) + (IF cr72h.s = 0 THEN 2 ELSE 0)
  /\ (/\ scn1Unit = "mg/dL" /\ Convertible(scn1)
      /\ cr72hUnit = "mg/dL" /\ Convertible(cr72h)) =>
       purkPlusRisk(purkRiskGroup(ScoreAsUmol(InUmol(cr72h))),
                    GroupAsUmol(InUmol(scn1))) = combined

C19_Witness ==
  /\ scn1 = Num0p4 /\ scn1Unit = "mg/dL"
  /\ cr72h = umolToMgdl(Num150) /\ cr72hUnit = "mg/dL" /\ vur /\ ~ftt
  /\ GroupAsUmol(mgdlToUmol(scn1)) = "Intermediate"
  /\ scn1Group = "Intermediate"
  /\ ScoreAsUmol(mgdlToUmol(cr72h)) = purkScore

\* C20: for every raw creatinine value (absent, finite, NaN, +Infinity,
\* -Infinity), unit and flags the form can hold, the score, the presentation
\* group, the follow-up group and the combined risk computed with the page's
\* own functions equal those computed with the functions of
\* components/calculations.ts.
C20_CopiesAgree ==
  /\ PageScore = purkScore
  /\ purkPointsScore = purkScore
  /\ PageGroup = purkGroup
  /\ PageScn1Group = scn1Group
  /\ PageCombined = combined

C20_Witness ==
  /\ cr72h = PosInfinity /\ cr72hUnit = "mg/dL" /\ ftt
  /\ scn1 = NegInfinity /\ scn1Unit = "mg/dL"
  /\ PageScore = 2 /\ purkScore = 2
  /\ PageScn1Group = NoGroup /\ scn1Group = NoGroup

\* the typed value is the component of the normalized reading in the unit shown
ReadAs(value, unit, norm) ==
  IF value = Undefined THEN norm = Null
  ELSE IF ~NumberIsFinite(value) THEN IsNaN(norm.mgdl) /\ IsNaN(norm.umol)
  ELSE IF unit = "mg/dL" THEN norm.mgdl = value
  ELSE norm.umol = value

\* C21: switching a unit selector changes only that reading's unit tag: the
\* typed value, the other reading, its unit and the three flags are unchanged,
\* and the number is read in the new unit rather than converted; editing a
\* value or toggling a flag leaves both unit tags and every other input
\* unchanged.
C21_OneInputPerStep ==
  [][/\ cr72hUnit' # cr72hUnit =>
          /\ UNCHANGED <<cr72h, ftt, vur, dysplasia, scn1, scn1Unit>>
          /\ ReadAs(cr72h, cr72hUnit', cr72hNorm')
     /\ scn1Unit' # scn1Unit =>
          /\ UNCHANGED <<cr72h, cr72hUnit, ftt, vur, dysplasia, scn1>>
          /\ ReadAs(scn1, scn1Unit', scn1Norm')
     /\ cr72h' # cr72h =>
          UNCHANGED <<cr72hUnit, ftt, vur, dysplasia, scn1, scn1Unit>>
     /\ scn1' # scn1 =>
          UNCHANGED <<cr72h, cr72hUnit, ftt, vur, dysplasia, scn1Unit>>
     /\ ftt' # ftt =>
          UNCHANGED <<cr72h, cr72hUnit, vur, dysplasia, scn1, scn1Unit>>
     /\ vur' # vur =>
          UNCHANGED <<cr72h, cr72hUnit, ftt, dysplasia, scn1, scn1Unit>>
     /\ dysplasia' # dysplasia =>
          UNCHANGED <<cr72h, cr72hUnit, ftt, vur, scn1, scn1Unit>>]_vars

\* 150 and 0.5 typed and both selectors switched away from the initial mg/dL:
\* the fields still hold 150 and 0.5, now read as umol/L, and the derived
\* values are those of the new reading (150 mg/dL scores 2, 150 umol/L scores
\* 0; 0.5 mg/dL is Intermediate, 0.5 umol/L is Low)
C21_Witness ==
  /\ cr72h = Num150 /\ cr72hUnit # "mg/dL" /\ cr72hNorm.umol = Num150
  /\ purkScore = 0
  /\ scn1 = Dec(5, 10) /\ scn1Unit # "mg/dL" /\ scn1Norm.umol = Dec(5, 10)
  /\ scn1Group = "Low"
====
